---- MODULE Spec2Model ----
(***************************************************************************)
(* Model of package nomnemonic (src/nomnemonic.go): the deterministic      *)
(* BIP39 mnemonic generator and its validator.                             *)
(*                                                                         *)
(* Representation.                                                         *)
(*   - A Go string that the code inspects byte by byte (identifier,        *)
(*     password, passcode, bit strings, the KDF message) is a sequence of  *)
(*     byte values 0..255; '0' is 48, '1' is 49, '+' is 43, and so on.     *)
(*   - A dictionary word is only ever compared and used as a map key, so a *)
(*     word is an opaque token: a natural number.  Token 0 is the empty    *)
(*     string "" (the zero value of a []string slot).                      *)
(*   - An error value is the tuple <<format, argument>> of the fmt.Errorf  *)
(*     or errors.New call that built it; the nil error is <<>>.            *)
(*   - crypto/sha256, pbkdf2 and scrypt are library functions outside the  *)
(*     repository.  Each is an unknown but fixed function of its           *)
(*     arguments; the variable hashFn selects which one of a family of     *)
(*     mixing functions it is, and never changes.                          *)
(***************************************************************************)
EXTENDS Integers, Sequences, FiniteSets, TLC

(***************************************************************************)
(* Program constants (src/nomnemonic.go:14-29, 66)                         *)
(***************************************************************************)
_bitChunkSizeOneByte == 8

_bitChunkSizeBip39WordIndex == 11

_bitChunkSizeEntropy == 32

_inputIdentifierMinLength == 2

_inputPasscodeLength == 6

_inputPasswordMinLength == 12

\* the word-list size required by New
DictSize == 2048

\* "pwd", "code", "mnemonic" as bytes
_saltPrefixPassword == <<112, 119, 100>>

_saltPrefixPasscode == <<99, 111, 100, 101>>

_saltPrefixMnemonic == <<109, 110, 101, 109, 111, 110, 105, 99>>

\* var _strengths: the set of supported strengths
_strengths == {256, 224, 192, 160, 128}

\* var _sentenceStrengths: word count -> strength
_sentenceStrengths == (24 :> 256) @@ (21 :> 224) @@ (18 :> 192) @@ (15 :> 160) @@ (12 :> 128)

\* Go map read _sentenceStrengths[k]: the zero value 0 for a missing key
SentenceStrength(k) == IF k \in DOMAIN _sentenceStrengths THEN _sentenceStrengths[k] ELSE 0

(***************************************************************************)
(* Bounds of the model                                                     *)
(***************************************************************************)
\* hashFn ranges over 0..MaxHashFn
MaxHashFn == 1

\* identifiers have 1..MaxIdLen bytes
MaxIdLen == 2

\* passwords have 11..MaxPwLen bytes
MaxPwLen == 12

\* New is tried on lists of DictSize-LenSlack .. DictSize+LenSlack words
LenSlack == 1

\* longest bit string handed to binToBytes on its own
MaxBits == 16

\* the entropies handed to the encoder on its own are numbered 0..MaxPattern
MaxPattern == 29

\* most characters that move between identifier and password in the inputs
\* of the key derivation on its own
MaxShift == 2

(***************************************************************************)
(* State                                                                   *)
(***************************************************************************)
VARIABLES
    hashFn,   \* which functions sha256, pbkdf2 and scrypt are
    backing,  \* the backing array of the caller's word list
    m,        \* the Mnemonicer returned by New
    pc,       \* the caller: "start", "returned" (a call has returned), "idle",
              \* "written" (it has written to its word list), "last", "done"
    call,     \* the call that has just returned: operation, arguments, results
    prev      \* an earlier Generate call the caller has kept

vars == <<hashFn, backing, m, pc, call, prev>>

(***************************************************************************)
(* Values                                                                  *)
(***************************************************************************)
NoError == <<>>

EmptyString == 0

NilMnemonicer == [nil |-> TRUE]

Errorf(format, arg) == <<format, arg>>

(***************************************************************************)
(* Byte helpers                                                            *)
(***************************************************************************)
RECURSIVE XorBits(_, _, _)
XorBits(a, b, n) ==
    IF n = 0 THEN 0
    ELSE (((a % 2) + (b % 2)) % 2) + 2 * XorBits(a \div 2, b \div 2, n - 1)

\* dkHead[i] ^ dkTail[i] on bytes
Xor(a, b) == XorBits(a, b, 8)

RECURSIVE Fold(_, _, _)
\* a running mix of the bytes s[i..] into 0..65520
Fold(s, i, h) ==
    IF i > Len(s) THEN h
    ELSE Fold(s, i + 1, (h * 31 + s[i] + 7) % 65521)

\* sha256.Sum256(data)[0]: the first digest byte
Sum256First(fn, data) ==
    (Fold(data, 1, 17 + fn) * 167 + Len(data) * 3 + fn * 89) % 256

\* pbkdf2.Key(password, salt, iter, keyLen, sha512.New)
Pbkdf2Key(fn, password, salt, iter, keyLen) ==
    LET h == (Fold(password, 1, 1 + fn) * 3 + Fold(salt, 1, 5) + iter) % 65521
    IN  [i \in 1..keyLen |-> ((h + fn * 61) * (2 * i + 1) + i * i * 29) % 256]

\* scrypt.Key(password, salt, N, r, p, keyLen)
ScryptKey(fn, password, salt, N, r, p, keyLen) ==
    LET h == (Fold(password, 1, 3) * 5 + Fold(salt, 1, 11 + fn) * 7 + N + r + p) % 65521
    IN  [i \in 1..keyLen |-> ((h + 211) * (4 * i + 3) + i * 113 + fn * 19) % 256]

(***************************************************************************)
(* Bit-string helpers (src/nomnemonic.go:240-289)                          *)
(***************************************************************************)
RECURSIVE BinDigits(_)
\* the minimal binary rendering of n >= 0, as '0'/'1' bytes
BinDigits(n) ==
    IF n < 2 THEN <<48 + n>>
    ELSE Append(BinDigits(n \div 2), 48 + (n % 2))

RECURSIVE Zeros(_)
Zeros(k) == IF k <= 0 THEN <<>> ELSE <<48>> \o Zeros(k - 1)

\* fmt.Sprintf("%0<bits>b", n) for n >= 0: left-padded with '0' to at least
\* bits characters, never truncated
intToBin(n, bits) ==
    LET d == BinDigits(n)
    IN  Zeros(bits - Len(d)) \o d

RECURSIVE bytesToBinFrom(_, _)
bytesToBinFrom(vals, i) ==
    IF i > Len(vals) THEN <<>>
    ELSE intToBin(vals[i], 8) \o bytesToBinFrom(vals, i + 1)

\* bytesToBin: each byte rendered "%08b", concatenated
bytesToBin(vals) == bytesToBinFrom(vals, 1)

RECURSIVE ParseBin(_, _, _)
ParseBin(n, i, acc) ==
    IF i > Len(n) THEN acc
    ELSE IF n[i] \notin {48, 49} THEN 0
    ELSE ParseBin(n, i + 1, 2 * acc + (n[i] - 48))

\* binToInt: strconv.ParseInt(n, 2, 64) with the error dropped; a syntax
\* error (empty string, a byte other than '0'/'1') leaves 0
binToInt(n) == IF Len(n) = 0 THEN 0 ELSE ParseBin(n, 1, 0)

\* chunkSplit with its loop bound one too low: the last full chunk is lost
chunkSplit_short(s, size) ==
    LET l == Len(s) \div size - 1
    IN  [i \in 1..l |-> SubSeq(s, (i - 1) * size + 1, i * size)]

\* chunkSplit: the len(s)/size full chunks of s, a trailing partial chunk
\* is dropped
chunkSplit(s, size) ==
    LET l == Len(s) \div size
    IN  [i \in 1..l |-> SubSeq(s, (i - 1) * size + 1, i * size)]

\* one iteration of the range loop of binToBytes on the byte v of the
\* string.  st is [bs, i, current, count, panic]: the buffer, the write
\* index (0-based), the byte in progress and its bit count.  A write at an
\* index outside the buffer is Go's index-out-of-range panic.
binToBytesStep(st, v) ==
    IF st.panic THEN st
    ELSE IF st.count = _bitChunkSizeOneByte /\ st.i + 1 > Len(st.bs) THEN
        [st EXCEPT !.panic = TRUE]
    ELSE
        LET st1 == IF st.count = _bitChunkSizeOneByte
                   THEN [st EXCEPT !.bs = [@ EXCEPT ![st.i + 1] = st.current],
                                   !.i = @ + 1, !.current = 0, !.count = 0]
                   ELSE st
        IN  [st1 EXCEPT !.current = (@ * 2 + ((v - 48) % 256)) % 256,
                        !.count = @ + 1]

RECURSIVE binToBytesLoop(_, _, _, _)
\* the iterations of the loop for the positions lo..hi of bitString, in
\* order (the range is halved only to keep the evaluation shallow); after a
\* panic no further iteration runs
binToBytesLoop(bitString, st, lo, hi) ==
    IF st.panic \/ lo > hi THEN st
    ELSE IF lo = hi THEN binToBytesStep(st, bitString[lo])
    ELSE LET mid == (lo + hi) \div 2
         IN  binToBytesLoop(bitString, binToBytesLoop(bitString, st, lo, mid), mid + 1, hi)

\* the state of binToBytes when its range loop has ended
binToBytesAfterLoop(bitString) ==
    LET lenB == Len(bitString) \div _bitChunkSizeOneByte + 1
        st0  == [bs |-> [j \in 1..lenB |-> 0], i |-> 0, current |-> 0, count |-> 0,
                 panic |-> FALSE]
    IN  binToBytesLoop(bitString, st0, 1, Len(bitString))

\* binToBytes that stores the last, partial byte without shifting it left
binToBytes_noShift(bitString) ==
    LET lenB == Len(bitString) \div _bitChunkSizeOneByte + 1
        st0  == [bs |-> [j \in 1..lenB |-> 0], i |-> 0, current |-> 0, count |-> 0,
                 panic |-> FALSE]
        st   == binToBytesLoop(bitString, st0, 1, Len(bitString))
    IN  IF st.panic THEN <<"panic">>
        ELSE IF st.count # 0 THEN
            IF st.i + 1 > Len(st.bs) THEN <<"panic">>
            ELSE SubSeq([st.bs EXCEPT ![st.i + 1] = st.current], 1, st.i + 1)
        ELSE SubSeq(st.bs, 1, st.i)

\* the result is the byte sequence, or <<"panic">>
binToBytes(bitString) ==
    LET lenB == Len(bitString) \div _bitChunkSizeOneByte + 1
        st0  == [bs |-> [j \in 1..lenB |-> 0], i |-> 0, current |-> 0, count |-> 0,
                 panic |-> FALSE]
        st   == binToBytesLoop(bitString, st0, 1, Len(bitString))
    IN  IF st.panic THEN <<"panic">>
        ELSE IF st.count # 0 THEN
            IF st.i + 1 > Len(st.bs) THEN <<"panic">>
            ELSE SubSeq([st.bs EXCEPT ![st.i + 1] =
                            (st.current * (2 ^ (_bitChunkSizeOneByte - st.count))) % 256],
                        1, st.i + 1)
        ELSE SubSeq(st.bs, 1, st.i)

(***************************************************************************)
(* The Mnemonicer (src/nomnemonic.go:49-238)                               *)
(*                                                                         *)
(* A mnemonicer value mm is [nil, words, dict].  mm.words is a Go slice:   *)
(* a header [len] over the backing array of the list handed to New, which  *)
(* the caller still holds; arr is that array.  Every method takes the      *)
(* mnemonicer and the array and returns them as they are after the call,   *)
(* next to the results.                                                    *)
(***************************************************************************)
\* m.words[i], i counted from 0
wordAt(mm, arr, i) == arr[i + 1]

\* m.dict[w] with the "comma ok" flag
hasWord(mm, w) == w \in DOMAIN mm.dict

indexOf(mm, w) == IF hasWord(mm, w) THEN mm.dict[w] ELSE 0

RECURSIVE dictRange(_, _, _)
\* the writes dict[w] = i of the loop `for i, w := range words` for the
\* entries lo..hi (1-based): a write to a key that is already there replaces
\* it, so the entries further right take precedence
dictRange(words, lo, hi) ==
    IF lo > hi THEN <<>>
    ELSE IF lo = hi THEN words[lo] :> (lo - 1)
    ELSE LET mid == (lo + hi) \div 2
         IN  dictRange(words, mid + 1, hi) @@ dictRange(words, lo, mid)

buildDict(words) == dictRange(words, 1, Len(words))

\* New with the size test `len(words) < 2048`: a longer list is accepted
New_atLeast(words) ==
    IF Len(words) < DictSize THEN
        [m |-> NilMnemonicer, backing |-> words,
         err |-> <<"bip39 is based on 2048 words">>]
    ELSE
        [m |-> [nil |-> FALSE, words |-> [len |-> Len(words)], dict |-> buildDict(words)],
         backing |-> words,
         err |-> NoError]

New(words) ==
    IF Len(words) # DictSize THEN
        [m |-> NilMnemonicer, backing |-> words,
         err |-> <<"bip39 is based on 2048 words">>]
    ELSE
        [m |-> [nil |-> FALSE, words |-> [len |-> Len(words)], dict |-> buildDict(words)],
         backing |-> words,
         err |-> NoError]

validateStrength(s) ==
    IF s \notin _strengths THEN Errorf("unsupported strength: %d", s) ELSE NoError

RECURSIVE validateWordsFrom(_, _, _)
validateWordsFrom(mm, words, i) ==
    IF i > Len(words) THEN NoError
    ELSE IF ~hasWord(mm, words[i]) THEN Errorf("unrecognized word %s", words[i])
    ELSE validateWordsFrom(mm, words, i + 1)

validateWordsPrecense(mm, words) == validateWordsFrom(mm, words, 1)

\* checksum truncated one bit too early, [:size-1]
checksum_short(fn, entropy, size) ==
    SubSeq(intToBin(Sum256First(fn, entropy), 8), 1, size - 1)

\* sha256.Sum256(entropy), then fmt.Sprintf("%08b", sum[0])[:size]
checksum(fn, entropy, size) ==
    SubSeq(intToBin(Sum256First(fn, entropy), 8), 1, size)

RECURSIVE binsFrom(_, _, _)
binsFrom(mm, words, i) ==
    IF i > Len(words) THEN <<>>
    ELSE intToBin(indexOf(mm, words[i]), _bitChunkSizeBip39WordIndex)
            \o binsFrom(mm, words, i + 1)

\* buildBins with the two validations in the other order
buildBins_wordsFirst(mm, strength, words) ==
    IF validateWordsPrecense(mm, words) # NoError THEN
        [bins |-> <<>>, err |-> validateWordsPrecense(mm, words)]
    ELSE IF validateStrength(strength) # NoError THEN
        [bins |-> <<>>, err |-> validateStrength(strength)]
    ELSE [bins |-> binsFrom(mm, words, 1), err |-> NoError]

buildBins(mm, strength, words) ==
    IF validateStrength(strength) # NoError THEN
        [bins |-> <<>>, err |-> validateStrength(strength)]
    ELSE IF validateWordsPrecense(mm, words) # NoError THEN
        [bins |-> <<>>, err |-> validateWordsPrecense(mm, words)]
    ELSE [bins |-> binsFrom(mm, words, 1), err |-> NoError]

RECURSIVE AtoiDigits(_, _, _)
AtoiDigits(s, i, n) ==
    IF i > Len(s) THEN [n |-> n, ok |-> TRUE]
    ELSE IF s[i] < 48 \/ s[i] > 57 THEN [n |-> 0, ok |-> FALSE]
    ELSE AtoiDigits(s, i + 1, n * 10 + (s[i] - 48))

\* strconv.Atoi on a string of fewer than 10 bytes (its fast path): an
\* optional leading '+' or '-', then one or more decimal digits
Atoi(s) ==
    IF Len(s) = 0 THEN [n |-> 0, ok |-> FALSE]
    ELSE IF s[1] \in {43, 45} THEN
        IF Len(s) < 2 THEN [n |-> 0, ok |-> FALSE]
        ELSE LET r == AtoiDigits(s, 2, 0)
             IN  IF s[1] = 45 THEN [n |-> 0 - r.n, ok |-> r.ok] ELSE r
    ELSE AtoiDigits(s, 1, 0)

RECURSIVE DecDigits(_)
DecDigits(n) ==
    IF n < 10 THEN <<48 + n>>
    ELSE Append(DecDigits(n \div 10), 48 + (n % 10))

\* the %d verb
Itoa(n) == IF n < 0 THEN <<45>> \o DecDigits(0 - n) ELSE DecDigits(n)

\* fmt.Sprintf("%s:%s|%s=%d", identifier, password, passcode, size)
kdfInput(identifier, password, passcode, size) ==
    identifier \o <<58>> \o password \o <<124>> \o passcode \o <<61>> \o Itoa(size)

\* a salt that leaves the password out
kdfSalt_noPassword(password, passcode) ==
    _saltPrefixPassword \o _saltPrefixPasscode \o passcode

\* _saltPrefixPassword+password+_saltPrefixPasscode+passcode
kdfSalt(password, passcode) ==
    _saltPrefixPassword \o password \o _saltPrefixPasscode \o passcode

\* lines 104-125: the entropy bytes
deriveEntropy(fn, identifier, password, passcode, size, strength) ==
    LET input       == kdfInput(identifier, password, passcode, size)
        salt        == kdfSalt(password, passcode)
        entropySize == strength \div _bitChunkSizeOneByte
        dkHead      == Pbkdf2Key(fn, input, salt, 262144, entropySize)
        dkTail      == ScryptKey(fn, input, salt, 262144, 8, 1, entropySize)
    IN  [i \in 1..entropySize |-> Xor(dkHead[i], dkTail[i])]

\* encodeWords with the last index built as checksum+prefix, not prefix+checksum
encodeWords_csFirst(mm, arr, fn, entropy, strength) ==
    LET bins         == bytesToBin(entropy)
        csSize       == strength \div _bitChunkSizeEntropy
        mnemonicSize == (strength + csSize) \div _bitChunkSizeBip39WordIndex
        prefixSize   == _bitChunkSizeBip39WordIndex - csSize
        wordIndexes  == chunkSplit(SubSeq(bins, 1, strength - prefixSize),
                                   _bitChunkSizeBip39WordIndex)
        words0       == [i \in 1..mnemonicSize |->
                            IF i <= Len(wordIndexes)
                            THEN wordAt(mm, arr, binToInt(wordIndexes[i]))
                            ELSE EmptyString]
        cs           == checksum(fn, entropy, csSize)
        prefix       == SubSeq(bins, strength - prefixSize + 1, Len(bins))
    IN  [words |-> [words0 EXCEPT ![mnemonicSize] = wordAt(mm, arr, binToInt(cs \o prefix))],
         cs    |-> cs]

\* encodeWords whose last group starts one entropy bit too early
encodeWords_overlap(mm, arr, fn, entropy, strength) ==
    LET bins         == bytesToBin(entropy)
        csSize       == strength \div _bitChunkSizeEntropy
        mnemonicSize == (strength + csSize) \div _bitChunkSizeBip39WordIndex
        prefixSize   == _bitChunkSizeBip39WordIndex - csSize
        wordIndexes  == chunkSplit(SubSeq(bins, 1, strength - prefixSize),
                                   _bitChunkSizeBip39WordIndex)
        words0       == [i \in 1..mnemonicSize |->
                            IF i <= Len(wordIndexes)
                            THEN wordAt(mm, arr, binToInt(wordIndexes[i]))
                            ELSE EmptyString]
        cs           == checksum(fn, entropy, csSize)
        prefix       == SubSeq(bins, strength - prefixSize, Len(bins) - 1)
    IN  [words |-> [words0 EXCEPT ![mnemonicSize] = wordAt(mm, arr, binToInt(prefix \o cs))],
         cs    |-> cs]

\* lines 126-144: the words of an entropy
encodeWords(mm, arr, fn, entropy, strength) ==
    LET bins         == bytesToBin(entropy)
        csSize       == strength \div _bitChunkSizeEntropy
        mnemonicSize == (strength + csSize) \div _bitChunkSizeBip39WordIndex
        prefixSize   == _bitChunkSizeBip39WordIndex - csSize
        wordIndexes  == chunkSplit(SubSeq(bins, 1, strength - prefixSize),
                                   _bitChunkSizeBip39WordIndex)
        words0       == [i \in 1..mnemonicSize |->
                            IF i <= Len(wordIndexes)
                            THEN wordAt(mm, arr, binToInt(wordIndexes[i]))
                            ELSE EmptyString]
        cs           == checksum(fn, entropy, csSize)
        prefix       == SubSeq(bins, strength - prefixSize + 1, Len(bins))
    IN  [words |-> [words0 EXCEPT ![mnemonicSize] = wordAt(mm, arr, binToInt(prefix \o cs))],
         cs    |-> cs]

\* lines 81-102: the checks Generate makes before it derives anything, in
\* their order; NoError when the inputs are accepted
validateInputs(identifier, password, passcode, size) ==
    IF Len(identifier) < _inputIdentifierMinLength THEN
        Errorf("identifier must be at least %d chars", _inputIdentifierMinLength)
    ELSE IF Len(password) < _inputPasswordMinLength THEN
        Errorf("password must be at least %d chars", _inputPasswordMinLength)
    ELSE IF Len(passcode) # _inputPasscodeLength THEN
        Errorf("passcode must be %d digits", _inputPasscodeLength)
    ELSE IF ~Atoi(passcode).ok THEN
        Errorf("passcode must be numeric but given '%s'", passcode)
    ELSE validateStrength(SentenceStrength(size))

\* Generate with a KDF message that carries over the length of the result the
\* caller kept from an earlier call
Generate_stale(mm, arr, fn, identifier, password, passcode, size) ==
    LET fail(e)  == [m |-> mm, backing |-> arr, ret |-> <<>>, err |-> e, cs |-> <<>>]
        strength == SentenceStrength(size)
    IN  IF Len(identifier) < _inputIdentifierMinLength THEN
            fail(Errorf("identifier must be at least %d chars", _inputIdentifierMinLength))
        ELSE IF Len(password) < _inputPasswordMinLength THEN
            fail(Errorf("password must be at least %d chars", _inputPasswordMinLength))
        ELSE IF Len(passcode) # _inputPasscodeLength THEN
            fail(Errorf("passcode must be %d digits", _inputPasscodeLength))
        ELSE IF ~Atoi(passcode).ok THEN
            fail(Errorf("passcode must be numeric but given '%s'", passcode))
        ELSE IF validateStrength(strength) # NoError THEN
            fail(validateStrength(strength))
        ELSE
            LET entropy == deriveEntropy(fn, identifier, password, passcode, size + Len(prev.ret), strength)
                enc     == encodeWords(mm, arr, fn, entropy, strength)
            IN  [m |-> mm, backing |-> arr, ret |-> enc.words, err |-> NoError, cs |-> enc.cs]

Generate(mm, arr, fn, identifier, password, passcode, size) ==
    LET fail(e)  == [m |-> mm, backing |-> arr, ret |-> <<>>, err |-> e, cs |-> <<>>]
        strength == SentenceStrength(size)
    IN  IF Len(identifier) < _inputIdentifierMinLength THEN
            fail(Errorf("identifier must be at least %d chars", _inputIdentifierMinLength))
        ELSE IF Len(password) < _inputPasswordMinLength THEN
            fail(Errorf("password must be at least %d chars", _inputPasswordMinLength))
        ELSE IF Len(passcode) # _inputPasscodeLength THEN
            fail(Errorf("passcode must be %d digits", _inputPasscodeLength))
        ELSE IF ~Atoi(passcode).ok THEN
            fail(Errorf("passcode must be numeric but given '%s'", passcode))
        ELSE IF validateStrength(strength) # NoError THEN
            fail(validateStrength(strength))
        ELSE
            LET entropy == deriveEntropy(fn, identifier, password, passcode, size, strength)
                enc     == encodeWords(mm, arr, fn, entropy, strength)
            IN  [m |-> mm, backing |-> arr, ret |-> enc.words, err |-> NoError, cs |-> enc.cs]

CalculateEntropy(mm, arr, fn, words) ==
    LET strength == SentenceStrength(Len(words))
        bb       == buildBins(mm, strength, words)
    IN  IF bb.err # NoError THEN
            [m |-> mm, backing |-> arr, ret |-> <<>>, err |-> bb.err, cs |-> <<>>]
        ELSE
            LET entropy == binToBytes(SubSeq(bb.bins, 1, strength))
                csSize  == strength \div _bitChunkSizeEntropy
                cs      == checksum(fn, entropy, csSize)
            IN  IF cs = SubSeq(bb.bins, strength + 1, Len(bb.bins)) THEN
                    [m |-> mm, backing |-> arr, ret |-> entropy, err |-> NoError, cs |-> cs]
                ELSE
                    [m |-> mm, backing |-> arr, ret |-> <<>>,
                     err |-> <<"invalid checksum">>, cs |-> cs]

\* IsValid that drops the error of buildBins and answers a plain false
IsValid_swallow(mm, arr, fn, words) ==
    LET strength == SentenceStrength(Len(words))
        bb       == buildBins(mm, strength, words)
    IN  IF bb.err # NoError THEN
            [m |-> mm, backing |-> arr, ret |-> FALSE, err |-> NoError, cs |-> <<>>]
        ELSE
            LET entropy == binToBytes(SubSeq(bb.bins, 1, strength))
                csSize  == strength \div _bitChunkSizeEntropy
                cs      == checksum(fn, entropy, csSize)
            IN  IF cs = SubSeq(bb.bins, strength + 1, Len(bb.bins)) THEN
                    [m |-> mm, backing |-> arr, ret |-> TRUE, err |-> NoError, cs |-> cs]
                ELSE
                    [m |-> mm, backing |-> arr, ret |-> FALSE, err |-> NoError, cs |-> cs]

IsValid(mm, arr, fn, words) ==
    LET strength == SentenceStrength(Len(words))
        bb       == buildBins(mm, strength, words)
    IN  IF bb.err # NoError THEN
            [m |-> mm, backing |-> arr, ret |-> FALSE, err |-> bb.err, cs |-> <<>>]
        ELSE
            LET entropy == binToBytes(SubSeq(bb.bins, 1, strength))
                csSize  == strength \div _bitChunkSizeEntropy
                cs      == checksum(fn, entropy, csSize)
            IN  IF cs = SubSeq(bb.bins, strength + 1, Len(bb.bins)) THEN
                    [m |-> mm, backing |-> arr, ret |-> TRUE, err |-> NoError, cs |-> cs]
                ELSE
                    [m |-> mm, backing |-> arr, ret |-> FALSE, err |-> NoError, cs |-> cs]

GenerateSeed(mm, arr, fn, sentence, passphrase) ==
    [m |-> mm, backing |-> arr,
     ret |-> Pbkdf2Key(fn, sentence, _saltPrefixMnemonic \o passphrase, 2048, 64),
     err |-> NoError, cs |-> <<>>]

GenerateSeed32(mm, arr, fn, sentence, passphrase) ==
    [m |-> mm, backing |-> arr,
     ret |-> Pbkdf2Key(fn, sentence, _saltPrefixMnemonic \o passphrase, 4096, 32),
     err |-> NoError, cs |-> <<>>]

(***************************************************************************)
(* Inputs                                                                  *)
(***************************************************************************)
\* 2048 distinct words; the word at index i is token n - i, so that a word
\* and its index never coincide
ReversedList(n) == [i \in 1..n |-> n + 1 - i]

\* 2048 words of which the second 1024 repeat the first 1024
HalfDupList == [i \in 1..DictSize |-> ((i - 1) % (DictSize \div 2)) + 1]

WordLists ==
    {ReversedList(n) : n \in (DictSize - LenSlack)..(DictSize + LenSlack)}
        \cup {HalfDupList, <<>>}

\* words that are in no list
Foreign1 == DictSize + 953

Foreign2 == DictSize + 954

\* "te:|"
IdText == <<116, 101, 58, 124>>

\* "test12345678=|"
PwText == <<116, 101, 115, 116, 49, 50, 51, 52, 53, 54, 55, 56, 61, 124>>

Cycle(text, n) == [i \in 1..n |-> text[((i - 1) % Len(text)) + 1]]

\* one identifier below the minimum length and one of the longest length
Identifiers ==
    {Cycle(IdText, n) : n \in {_inputIdentifierMinLength - 1, MaxIdLen}}

\* one password below the minimum length and one of the longest length
Passwords ==
    {Cycle(PwText, n) : n \in {_inputPasswordMinLength - 1, MaxPwLen}}

Passcodes ==
    { <<49, 50, 51, 52, 53>>,              \* "12345"
      <<49, 50, 51, 52, 53, 54, 55>>,      \* "1234567"
      <<48, 48, 49, 57, 51, 56>>,          \* "001938"
      <<43, 49, 50, 51, 52, 53>>,          \* "+12345"
      <<45, 49, 50, 51, 52, 53>>,          \* "-12345"
      <<49, 50, 51, 52, 53, 97>>,          \* "12345a"
      <<49, 43, 50, 51, 52, 53>>,          \* "1+2345"
      <<97, 50, 51, 52, 53>> }             \* "a2345"

Sizes == {11, 12, 15, 18, 21, 24}

\* "", "ab cd"
Sentences == {<<>>, <<97, 98, 32, 99, 100>>}

\* "", "x"
Passphrases == {<<>>, <<120>>}

(***************************************************************************)
(* Calls                                                                   *)
(***************************************************************************)
NoCall == [op |-> "", args |-> <<>>, ret |-> <<>>, err |-> <<>>, cs |-> <<>>]

Returned(op, args, r) ==
    [op |-> op, args |-> args, ret |-> r.ret, err |-> r.err, cs |-> r.cs]

Replace(ws, i, w) == [ws EXCEPT ![i] = w]

\* the word sequences the caller passes to CalculateEntropy and IsValid: the
\* mnemonic it kept, damaged copies of it, and a few fixed sequences
MnemonicInputs ==
    LET kept == IF prev.op = "Generate" /\ prev.err = NoError THEN {prev.ret} ELSE {}
    IN  kept
        \cup {Replace(ws, Len(ws), w) : ws \in kept, w \in {backing[1], backing[2], Foreign1}}
        \cup {Replace(Replace(ws, 2, Foreign2), Len(ws), Foreign1) : ws \in kept}
        \cup {SubSeq(ws, 1, Len(ws) - 1) : ws \in kept}
        \cup {Replace(SubSeq(ws, 1, Len(ws) - 1), 1, Foreign1) : ws \in kept}
        \cup {Append(ws, backing[1]) : ws \in kept}
        \cup {<<>>, [i \in 1..12 |-> backing[1]], [i \in 1..15 |-> Foreign2]}

Init ==
    /\ hashFn \in 0..MaxHashFn
    /\ backing = <<>>
    /\ m = NilMnemonicer
    /\ pc = "start"
    /\ call = NoCall
    /\ prev = NoCall

DoNew(words) ==
    /\ pc = "start"
    /\ LET r == New(words)
       IN  /\ m' = r.m
           /\ backing' = r.backing
           /\ call' = [op |-> "New", args |-> <<words>>, ret |-> <<>>, err |-> r.err, cs |-> <<>>]
    /\ pc' = "returned"
    /\ UNCHANGED <<hashFn, prev>>

\* a method of the Mnemonicer can be called
Callable == pc \in {"idle", "written"}

\* the caller's position when the call returns
AfterCall == IF pc = "written" THEN "last" ELSE "returned"

DoGenerate(identifier, password, passcode, size) ==
    /\ Callable
    /\ LET r == Generate(m, backing, hashFn, identifier, password, passcode, size)
       IN  /\ m' = r.m
           /\ backing' = r.backing
           /\ call' = Returned("Generate", <<identifier, password, passcode, size>>, r)
    /\ pc' = AfterCall
    /\ UNCHANGED <<hashFn, prev>>

DoCalculateEntropy(words) ==
    /\ Callable
    /\ LET r == CalculateEntropy(m, backing, hashFn, words)
       IN  /\ m' = r.m
           /\ backing' = r.backing
           /\ call' = Returned("CalculateEntropy", <<words>>, r)
    /\ pc' = AfterCall
    /\ UNCHANGED <<hashFn, prev>>

DoIsValid(words) ==
    /\ Callable
    /\ LET r == IsValid(m, backing, hashFn, words)
       IN  /\ m' = r.m
           /\ backing' = r.backing
           /\ call' = Returned("IsValid", <<words>>, r)
    /\ pc' = AfterCall
    /\ UNCHANGED <<hashFn, prev>>

DoGenerateSeed(sentence, passphrase) ==
    /\ Callable
    /\ LET r == GenerateSeed(m, backing, hashFn, sentence, passphrase)
       IN  /\ m' = r.m
           /\ backing' = r.backing
           /\ call' = Returned("GenerateSeed", <<sentence, passphrase>>, r)
    /\ pc' = AfterCall
    /\ UNCHANGED <<hashFn, prev>>

DoGenerateSeed32(sentence, passphrase) ==
    /\ Callable
    /\ LET r == GenerateSeed32(m, backing, hashFn, sentence, passphrase)
       IN  /\ m' = r.m
           /\ backing' = r.backing
           /\ call' = Returned("GenerateSeed32", <<sentence, passphrase>>, r)
    /\ pc' = AfterCall
    /\ UNCHANGED <<hashFn, prev>>

\* the caller takes the results; it may keep a Generate call for later.
\* Without a Mnemonicer (New failed) there is nothing more to call.
Return ==
    /\ pc \in {"returned", "last"}
    /\ pc' = IF m.nil \/ pc = "last" THEN "done" ELSE "idle"
    /\ prev' \in {prev} \cup (IF call.op = "Generate" THEN {call} ELSE {})
    /\ call' = NoCall
    /\ UNCHANGED <<hashFn, backing, m>>

\* the caller writes a word into the list it handed to New: it overwrites
\* an entry that holds the first word of the mnemonic it kept.  The model
\* follows the caller for one more call after the write.
CallerWrite(i, w) ==
    /\ pc = "idle"
    /\ prev.op = "Generate"
    /\ prev.err = NoError
    /\ i \in 1..Len(backing)
    /\ backing[i] = prev.ret[1]
    /\ backing' = [backing EXCEPT ![i] = w]
    /\ pc' = "written"
    /\ UNCHANGED <<hashFn, m, call, prev>>

Next ==
    \/ \E words \in WordLists : DoNew(words)
    \/ /\ Callable
       /\ \E identifier \in Identifiers, password \in Passwords,
             passcode \in Passcodes, size \in Sizes :
               DoGenerate(identifier, password, passcode, size)
    \/ /\ Callable
       /\ \E words \in MnemonicInputs : DoCalculateEntropy(words)
    \/ /\ Callable
       /\ \E words \in MnemonicInputs : DoIsValid(words)
    \/ \E sentence \in Sentences, passphrase \in Passphrases :
            DoGenerateSeed(sentence, passphrase)
    \/ \E sentence \in Sentences, passphrase \in Passphrases :
            DoGenerateSeed32(sentence, passphrase)
    \/ Return

Spec == Init /\ [][Next]_vars

\* the Mnemonicer's operations together with a caller that goes on writing
\* to its word list
NextCaller ==
    \/ Next
    \/ /\ pc = "idle"
       /\ prev.op = "Generate"
       /\ prev.err = NoError
       /\ \E i \in {j \in 1..Len(backing) : backing[j] = prev.ret[1]} :
               CallerWrite(i, Foreign1)

SpecCaller == Init /\ [][NextCaller]_vars

(***************************************************************************)
(* binToBytes on its own (src/nomnemonic.go:240-262): the function is      *)
(* applied to every string of '0' and '1' of up to MaxBits characters.  It *)
(* needs no Mnemonicer and does not hash.                                  *)
(***************************************************************************)
BitStrings == UNION {[1..n -> {48, 49}] : n \in 0..MaxBits}

InitBits ==
    /\ hashFn = 0
    /\ backing = <<>>
    /\ m = NilMnemonicer
    /\ pc = "start"
    /\ call = NoCall
    /\ prev = NoCall

DoBinToBytes(bitString) ==
    /\ pc = "start"
    /\ call' = [op |-> "binToBytes", args |-> <<bitString>>,
                ret |-> binToBytes(bitString), err |-> NoError, cs |-> <<>>]
    /\ pc' = "returned"
    /\ UNCHANGED <<hashFn, backing, m, prev>>

NextBits ==
    \/ /\ pc = "start"
       /\ \E bitString \in BitStrings : DoBinToBytes(bitString)
    \/ Return

SpecBits == InitBits /\ [][NextBits]_vars

(***************************************************************************)
(* The encoder of Generate on its own (src/nomnemonic.go:126-144): after   *)
(* New, lines 126-144 are applied to entropies of each supported strength. *)
(***************************************************************************)
\* entropy number pattern of n bytes
PatternBytes(pattern, n) ==
    [i \in 1..n |-> ((pattern + 1) * (i * i + 3 * i) + 255 * pattern + (i \div 5) * 64) % 256]

\* the entropies of a strength: the numbered ones, all zero bits, all one bits
Entropies(strength) ==
    LET n == strength \div _bitChunkSizeOneByte
    IN  {PatternBytes(pattern, n) : pattern \in 0..MaxPattern}
            \cup {[i \in 1..n |-> 0], [i \in 1..n |-> 255]}

DoEncodeWords(strength, entropy) ==
    /\ Callable
    /\ LET enc == encodeWords(m, backing, hashFn, entropy, strength)
       IN  call' = [op |-> "encodeWords", args |-> <<entropy, strength>>,
                    ret |-> enc.words, err |-> NoError, cs |-> enc.cs]
    /\ pc' = AfterCall
    /\ UNCHANGED <<hashFn, backing, m, prev>>

NextEncode ==
    \/ \E words \in WordLists : DoNew(words)
    \/ /\ Callable
       /\ \E strength \in _strengths :
            \E entropy \in Entropies(strength) : DoEncodeWords(strength, entropy)
    \/ Return

SpecEncode == Init /\ [][NextEncode]_vars

(***************************************************************************)
(* The key-derivation inputs of Generate on their own                      *)
(* (src/nomnemonic.go:81-120): the checks of lines 81-102, then the        *)
(* message of line 104 and the salt of lines 108 and 115.  The caller may  *)
(* keep an accepted call to compare a later one with it.                   *)
(***************************************************************************)
\* n characters of the endless repetition of text, from offset off
Rotated(text, off, n) == [i \in 1..n |-> text[((off + i - 1) % Len(text)) + 1]]

\* ":a"
SeparatorText == <<58, 97>>

\* ":", and the pieces of ":a:a:a..." of 2 to 2+MaxShift characters, "pwd"
KdfIdentifiers ==
    {Rotated(SeparatorText, 0, _inputIdentifierMinLength - 1)}
        \cup {Rotated(SeparatorText, off, n) :
                off \in 0..1,
                n \in _inputIdentifierMinLength..(_inputIdentifierMinLength + MaxShift)}
        \cup {<<112, 119, 100>>}

\* a piece of 11 characters, the pieces of 12 to 12+MaxShift characters,
\* "code|001938=12"
KdfPasswords ==
    {Rotated(SeparatorText, 0, _inputPasswordMinLength - 1)}
        \cup {Rotated(SeparatorText, off, n) :
                off \in 0..1,
                n \in _inputPasswordMinLength..(_inputPasswordMinLength + MaxShift)}
        \cup {<<99, 111, 100, 101, 124, 48, 48, 49, 57, 51, 56, 61, 49, 50>>}

\* "001938", "+12345", "12345"
KdfPasscodes ==
    {<<48, 48, 49, 57, 51, 56>>, <<43, 49, 50, 51, 52, 53>>, <<49, 50, 51, 52, 53>>}

KdfSizes == {11, 12, 24}

InitKdf ==
    /\ hashFn = 0
    /\ backing = <<>>
    /\ m = NilMnemonicer
    /\ pc = "idle"
    /\ call = NoCall
    /\ prev = NoCall

DoKdfInput(identifier, password, passcode, size) ==
    /\ pc = "idle"
    /\ LET err == validateInputs(identifier, password, passcode, size)
       IN  call' = [op |-> "kdfInput",
                    args |-> <<identifier, password, passcode, size>>,
                    ret |-> IF err = NoError
                            THEN <<kdfInput(identifier, password, passcode, size),
                                   kdfSalt(password, passcode)>>
                            ELSE <<>>,
                    err |-> err, cs |-> <<>>]
    /\ pc' = "returned"
    /\ UNCHANGED <<hashFn, backing, m, prev>>

\* the caller takes the result; it may keep an accepted call for later
ReturnKdf ==
    /\ pc = "returned"
    /\ pc' = "idle"
    /\ prev' \in {prev} \cup (IF call.err = NoError THEN {call} ELSE {})
    /\ call' = NoCall
    /\ UNCHANGED <<hashFn, backing, m>>

NextKdf ==
    \/ /\ pc = "idle"
       /\ \E identifier \in KdfIdentifiers, password \in KdfPasswords,
             passcode \in KdfPasscodes, size \in KdfSizes :
               DoKdfInput(identifier, password, passcode, size)
    \/ ReturnKdf

SpecKdf == InitKdf /\ [][NextKdf]_vars

(***************************************************************************)
(* Properties                                                              *)
(***************************************************************************)
SupportedCounts == {12, 15, 18, 21, 24}

\* the strength of a supported word count: 128, 160, 192, 224, 256
StrengthOfCount(w) == 32 * (w \div 3)

\* a call of op has just returned to the caller
JustReturned(op) == pc = "returned" /\ call.op = op

\* the Dictionary holds 2048 distinct words
DistinctDictionary == ~m.nil /\ Cardinality(DOMAIN m.dict) = DictSize

\* C1: round trip.  With a Dictionary of 2048 distinct words, whenever
\* Generate has accepted its inputs and returned a word sequence, IsValid
\* of that sequence is true with no error.
C1_RoundTrip ==
    (JustReturned("Generate") /\ call.err = NoError /\ DistinctDictionary)
        => LET v == IsValid(m, backing, hashFn, call.ret)
           IN  v.ret = TRUE /\ v.err = NoError

C1_Witness ==
    /\ JustReturned("Generate") /\ call.err = NoError /\ DistinctDictionary
    /\ call.args[4] = 24
    /\ IsValid(m, backing, hashFn, call.ret).ret = TRUE

\* C2: whenever Generate returns words for a word count w, w is a supported
\* count, the result has exactly w words, w*11 = strength + strength/32, and
\* every slot of the result holds the Dictionary entry of some index in
\* 0..2047 (none is left as the empty string).
C2_GenerateWords ==
    (JustReturned("Generate") /\ call.err = NoError)
        => LET w == call.args[4]
           IN  /\ w \in SupportedCounts
               /\ Len(call.ret) = w
               /\ w * 11 = StrengthOfCount(w) + StrengthOfCount(w) \div 32
               /\ \A i \in 1..Len(call.ret) :
                    /\ call.ret[i] # EmptyString
                    /\ hasWord(m, call.ret[i])
                    /\ indexOf(m, call.ret[i]) \in 0..(DictSize - 1)
                    /\ wordAt(m, backing, indexOf(m, call.ret[i])) = call.ret[i]

C2_Witness ==
    /\ JustReturned("Generate") /\ call.err = NoError
    /\ call.args[4] = 15
    /\ Len(call.ret) = 15

AllDigits(str) == \A i \in 1..Len(str) : str[i] \in 48..57

ErrIdentifier == <<"identifier must be at least %d chars", 2>>

ErrPassword == <<"password must be at least %d chars", 12>>

ErrPasscodeLength == <<"passcode must be %d digits", 6>>

ErrPasscodeNumeric(passcode) == <<"passcode must be numeric but given '%s'", passcode>>

ErrStrength(value) == <<"unsupported strength: %d", value>>

ErrWord(w) == <<"unrecognized word %s", w>>

ErrChecksum == <<"invalid checksum">>

\* C4: Generate checks (1) len(identifier) >= 2, (2) len(password) >= 12,
\* (3) len(passcode) = 6, (4) passcode is numeric (decimal digits only),
\* (5) supported word count, in this order: its error is the one of the first
\* violated precondition, the five errors are distinct, the word-count error
\* reports strength 0, and it returns words only when none is violated.
C4_PreconditionOrder ==
    JustReturned("Generate")
        => LET identifier == call.args[1]
               password   == call.args[2]
               passcode   == call.args[3]
               w          == call.args[4]
               expected   ==
                   IF Len(identifier) < 2 THEN ErrIdentifier
                   ELSE IF Len(password) < 12 THEN ErrPassword
                   ELSE IF Len(passcode) # 6 THEN ErrPasscodeLength
                   ELSE IF ~AllDigits(passcode) THEN ErrPasscodeNumeric(passcode)
                   ELSE IF w \notin SupportedCounts THEN ErrStrength(0)
                   ELSE NoError
           IN  /\ call.err = expected
               /\ Cardinality({ErrIdentifier, ErrPassword, ErrPasscodeLength,
                               ErrPasscodeNumeric(passcode), ErrStrength(0)}) = 5
               /\ (call.ret # <<>>) <=> (expected = NoError)

\* C5: with a valid identifier, password and word count, a 6-character
\* passcode is accepted if and only if all six characters are decimal digits,
\* and any other 6-character passcode fails with the not-numeric error.
C5_PasscodeDigits ==
    (/\ JustReturned("Generate")
     /\ Len(call.args[1]) >= 2
     /\ Len(call.args[2]) >= 12
     /\ Len(call.args[3]) = 6
     /\ call.args[4] \in SupportedCounts)
        => /\ (call.err = NoError) <=> AllDigits(call.args[3])
           /\ ~AllDigits(call.args[3]) => call.err = ErrPasscodeNumeric(call.args[3])

\* some word of ws is not in the Dictionary
HasUnknownWord(ws) == \E i \in 1..Len(ws) : ~hasWord(m, ws[i])

FirstUnknownWord(ws) ==
    ws[CHOOSE i \in 1..Len(ws) :
            /\ ~hasWord(m, ws[i])
            /\ \A j \in 1..(i - 1) : hasWord(m, ws[j])]

\* bit p (from 0) of the concatenated 11-bit indexes of ws, MSB first
DecodedBit(ws, p) == (indexOf(m, ws[(p \div 11) + 1]) \div (2 ^ (10 - (p % 11)))) % 2

\* byte k (from 0) of the decoded bits, MSB first
PackedByte(ws, k) ==
      DecodedBit(ws, 8 * k) * 128 + DecodedBit(ws, 8 * k + 1) * 64
    + DecodedBit(ws, 8 * k + 2) * 32 + DecodedBit(ws, 8 * k + 3) * 16
    + DecodedBit(ws, 8 * k + 4) * 8 + DecodedBit(ws, 8 * k + 5) * 4
    + DecodedBit(ws, 8 * k + 6) * 2 + DecodedBit(ws, 8 * k + 7)

ExpectedEntropy(ws) == [k \in 1..(StrengthOfCount(Len(ws)) \div 8) |-> PackedByte(ws, k - 1)]

\* the trailing strength/32 bits, as '0'/'1'
TrailingBits(ws) ==
    [q \in 1..(StrengthOfCount(Len(ws)) \div 32) |->
        48 + DecodedBit(ws, StrengthOfCount(Len(ws)) + q - 1)]

ChecksumMatches(ws) ==
    checksum(hashFn, ExpectedEntropy(ws), StrengthOfCount(Len(ws)) \div 32) = TrailingBits(ws)

\* C6: CalculateEntropy has exactly one outcome, by this precedence:
\* unsupported word count -> "unsupported strength: 0" (also when words are
\* unknown); else an unknown word -> "unrecognized word" naming the first one;
\* else a checksum mismatch -> "invalid checksum"; else the strength/8 bytes
\* of the first strength decoded bits, MSB first.
C6_EntropyOutcome ==
    JustReturned("CalculateEntropy")
        => LET ws == call.args[1]
           IN  IF Len(ws) \notin SupportedCounts THEN
                   call.err = ErrStrength(0) /\ call.ret = <<>>
               ELSE IF HasUnknownWord(ws) THEN
                   call.err = ErrWord(FirstUnknownWord(ws)) /\ call.ret = <<>>
               ELSE IF ~ChecksumMatches(ws) THEN
                   call.err = ErrChecksum /\ call.ret = <<>>
               ELSE /\ call.err = NoError
                    /\ Len(call.ret) = StrengthOfCount(Len(ws)) \div 8
                    /\ call.ret = ExpectedEntropy(ws)

C6_Witness ==
    /\ JustReturned("CalculateEntropy")
    /\ Len(call.args[1]) = 24
    /\ call.err = NoError
    /\ Len(call.ret) = 32

\* C7: IsValid agrees with CalculateEntropy on every word sequence: true
\* exactly when CalculateEntropy returns entropy; false with an error exactly
\* when the word count is unsupported or a word is unknown, and then the error
\* is CalculateEntropy's; false without error exactly when CalculateEntropy
\* fails with "invalid checksum".
C7_IsValidAgrees ==
    JustReturned("IsValid")
        => LET ws         == call.args[1]
               ce         == CalculateEntropy(m, backing, hashFn, ws)
               structural == Len(ws) \notin SupportedCounts \/ HasUnknownWord(ws)
           IN  /\ (call.ret = TRUE) <=> (ce.err = NoError)
               /\ (call.ret = FALSE /\ call.err # NoError) <=> structural
               /\ structural => call.err = ce.err
               /\ (call.ret = FALSE /\ call.err = NoError) <=> (ce.err = ErrChecksum)

C7_Witness ==
    /\ JustReturned("IsValid")
    /\ call.ret = FALSE
    /\ call.err = NoError
    /\ CalculateEntropy(m, backing, hashFn, call.args[1]).err = ErrChecksum

\* C8: once New has returned a Mnemonicer, no step changes the Dictionary:
\* neither a call of Generate, CalculateEntropy, IsValid, GenerateSeed or
\* GenerateSeed32 nor a write by the caller to the list it handed to New
\* changes the word list or the word-to-index map.
C8_DictionaryImmutable ==
    [][(~m.nil) => (m' = m /\ backing' = backing)]_vars

Distinct(ws) == Cardinality({ws[i] : i \in 1..Len(ws)}) = Len(ws)

\* C9: New returns a Mnemonicer exactly when the list has 2048 entries and
\* otherwise nil with the size error; for an accepted list wordAt(i) is entry
\* i for every i in 0..2047 and, when the entries are distinct,
\* indexOf(wordAt(i)) = i.
C9_New ==
    JustReturned("New")
        => LET ws == call.args[1]
           IN  /\ (~m.nil) <=> (Len(ws) = 2048)
               /\ m.nil => call.err = <<"bip39 is based on 2048 words">>
               /\ (~m.nil) =>
                    /\ call.err = NoError
                    /\ \A i \in 0..2047 : wordAt(m, backing, i) = ws[i + 1]
                    /\ Distinct(ws) =>
                         \A i \in 0..2047 :
                            /\ hasWord(m, wordAt(m, backing, i))
                            /\ indexOf(m, wordAt(m, backing, i)) = i

C9_Witness ==
    /\ JustReturned("New")
    /\ ~m.nil
    /\ Distinct(call.args[1])
    /\ indexOf(m, wordAt(m, backing, 2047)) = 2047

\* a call that has computed a checksum has just returned
ChecksumComputed ==
    \/ JustReturned("Generate") /\ call.err = NoError
    \/ JustReturned("CalculateEntropy") /\ call.err \in {NoError, ErrChecksum}
    \/ JustReturned("IsValid") /\ call.err = NoError

\* the strength the returned call worked with
CallStrength ==
    IF call.op = "Generate" THEN StrengthOfCount(call.args[4])
    ELSE StrengthOfCount(Len(call.args[1]))

\* C10 as stated: the checksum of Generate, CalculateEntropy and IsValid has
\* strength/32 bits, and that is always fewer than 8.
C10_ChecksumBelowByte ==
    ChecksumComputed
        => /\ Len(call.cs) = CallStrength \div 32
           /\ Len(call.cs) < 8

\* C10 amended: the checksum of Generate, CalculateEntropy and IsValid has
\* strength/32 bits for a strength in {128,160,192,224,256}; that is fewer
\* than 8 for the strengths up to 224 and exactly 8, the whole first digest
\* byte, for strength 256.
C10_ChecksumBits ==
    ChecksumComputed
        => /\ CallStrength \in {128, 160, 192, 224, 256}
           /\ Len(call.cs) = CallStrength \div 32
           /\ Len(call.cs) <= 8
           /\ (Len(call.cs) = 8) <=> (CallStrength = 256)

C10_Witness ==
    /\ JustReturned("Generate")
    /\ call.err = NoError
    /\ call.args[4] = 24
    /\ Len(call.cs) = 8

\* bit p (from 0) of a string of '0' and '1', 0 beyond its end
BitAt(bitString, p) == IF p < Len(bitString) THEN bitString[p + 1] - 48 ELSE 0

\* bits 8k..8k+7 of the string as one byte, MSB first, zero beyond its end
ByteOfBits(bitString, k) ==
      BitAt(bitString, 8 * k) * 128 + BitAt(bitString, 8 * k + 1) * 64
    + BitAt(bitString, 8 * k + 2) * 32 + BitAt(bitString, 8 * k + 3) * 16
    + BitAt(bitString, 8 * k + 4) * 8 + BitAt(bitString, 8 * k + 5) * 4
    + BitAt(bitString, 8 * k + 6) * 2 + BitAt(bitString, 8 * k + 7)

\* C12: for every string of '0'/'1' of length n >= 0, binToBytes never
\* writes outside the buffer it allocated and returns exactly ceil(n/8)
\* bytes (none for n = 0); byte k holds bits 8k..8k+7 MSB first, and a last
\* partial byte holds the remaining n mod 8 bits in its most significant
\* positions with zero low bits.
C12_BinToBytes ==
    JustReturned("binToBytes")
        => LET bitString == call.args[1]
               n  == Len(bitString)
               st == binToBytesAfterLoop(bitString)
           IN  /\ ~st.panic
               /\ st.i + (IF st.count # 0 THEN 1 ELSE 0) <= Len(st.bs)
               /\ Len(call.ret) = (n + 7) \div 8
               /\ (n % 8 = 0) => Len(call.ret) = n \div 8
               /\ \A k \in 0..(Len(call.ret) - 1) :
                    call.ret[k + 1] = ByteOfBits(bitString, k)

\* a string of 13 bits ending in 1: two bytes, the second one partial
C12_Witness ==
    /\ JustReturned("binToBytes")
    /\ Len(call.args[1]) = 13
    /\ call.args[1][13] = 49
    /\ Len(call.ret) = 2
    /\ call.ret[2] % 16 = 8

\* bit p (from 0) of the BIP39 bit stream of an entropy: the entropy bits,
\* each byte MSB first, followed by the bits of the first digest byte
StreamBit(entropy, strength, p) ==
    IF p < strength
    THEN (entropy[(p \div 8) + 1] \div (2 ^ (7 - (p % 8)))) % 2
    ELSE (Sum256First(hashFn, entropy) \div (2 ^ (7 - (p - strength)))) % 2

RECURSIVE StreamValue(_, _, _, _)
\* the unsigned value of the bits p..q of the stream
StreamValue(entropy, strength, p, q) ==
    IF q < p THEN 0
    ELSE 2 * StreamValue(entropy, strength, p, q - 1) + StreamBit(entropy, strength, q)

\* C11: the two-step encoder of Generate equals the standard BIP39
\* encoding: for every supported strength and entropy of strength/8 bytes
\* it yields mnemonicLength = (strength + strength/32)/11 words, and word i
\* (from 0) is the Dictionary entry whose index is the unsigned value of bits
\* 11i..11i+10 of the entropy bits MSB first followed by the strength/32
\* checksum bits.
C11_StandardEncoding ==
    JustReturned("encodeWords")
        => LET entropy  == call.args[1]
               strength == call.args[2]
               w        == (strength + strength \div 32) \div 11
           IN  /\ strength \in _strengths
               /\ Len(entropy) = strength \div 8
               /\ 11 * w = strength + strength \div 32
               /\ Len(call.ret) = w
               /\ \A i \in 0..(w - 1) :
                    call.ret[i + 1] =
                        wordAt(m, backing, StreamValue(entropy, strength, 11 * i, 11 * i + 10))

\* 24 words of a 256-bit entropy whose last group has non-zero entropy bits
\* and a non-zero checksum
C11_Witness ==
    /\ JustReturned("encodeWords")
    /\ DistinctDictionary
    /\ call.args[2] = 256
    /\ Len(call.ret) = 24
    /\ StreamValue(call.args[1], 256, 253, 255) # 0
    /\ StreamValue(call.args[1], 256, 256, 263) # 0
    /\ indexOf(m, call.ret[24]) = StreamValue(call.args[1], 256, 253, 263)

\* an accepted derivation has returned and the caller kept an accepted
\* earlier one whose inputs differ in at least one component
TwoAcceptedInputs ==
    /\ JustReturned("kdfInput") /\ call.err = NoError
    /\ prev.op = "kdfInput" /\ prev.err = NoError
    /\ call.args # prev.args

\* C13: the KDF input of Generate is injective on accepted inputs.  Two
\* tuples (identifier, password, passcode, word count) that pass the checks
\* of Generate and differ in a component give different pairs (message
\* "identifier:password|passcode=wordCount", salt "pwd"+password+"code"+
\* passcode), also when identifier or password hold ':', '|', '=', "pwd" or
\* "code"; the messages alone may be equal.
C13_KdfInjective ==
    TwoAcceptedInputs => call.ret # prev.ret

\* two accepted tuples with the same message and different salts
C13_Witness ==
    /\ TwoAcceptedInputs
    /\ call.ret[1] = prev.ret[1]
    /\ call.ret[2] # prev.ret[2]

====
